---------------------------- MODULE Spec2Model ----------------------------
(***************************************************************************)
(* BT::Blackboard (include/behaviortree_cpp/blackboard.h): a tree of       *)
(* key/value stores.  Every store owns a mutex, a table of entries         *)
(* (storage_), a weak reference to its parent (parent_bb_) and a remapping *)
(* table (internal_to_external_).  Callers are threads; a call is a stack  *)
(* of frames, one per store the call has entered, each holding that        *)
(* store's mutex until the call returns or throws.                         *)
(***************************************************************************)
EXTENDS Naturals, Sequences, FiniteSets, TLC

\* ------------------------------------------------------------ bounds
\* Calls issued in one behaviour by a single caller.
MaxCalls == 3
\* Calls issued in one behaviour by concurrent callers, all together.
MaxConcCalls == 2
\* The same, where a call follows a call that has failed.
MaxFairCalls == 3

\* ------------------------------------------------------------ universe
Stores == {"R", "C", "G"}
Keys == {"a", "b"}
Types == {"int", "str"}
Threads == {"t1", "t2"}

NoStore == "none"
NullType == "nulltype"
NoThread == "free"

\* SafeAny::Any: empty, or a value together with its runtime type.
EmptyAny == [t |-> NullType, v |-> 0]
Values == {[t |-> "int", v |-> 1], [t |-> "str", v |-> 2]}

\* Blackboard(Blackboard::Ptr parent): the tree is fixed by construction.
\* R is the root, C was created with parent R, G with parent C.
parent_bb_ == [s \in Stores |->
                 CASE s = "R" -> NoStore
                   [] s = "C" -> "R"
                   [] s = "G" -> "C"]

\* internal_to_external_: configured before any access and never changed.
\* C maps a to R's b; G maps a to C's a; b is local in C and in G.
internal_to_external_ == [s \in Stores |->
                            CASE s = "R" -> << >>
                              [] s = "C" -> [k \in {"a"} |-> "b"]
                              [] s = "G" -> [k \in {"a"} |-> "a"]]

\* struct Entry, as built by Entry(type = nullptr).
Entry(type) == [value |-> EmptyAny, locked_port_type |-> type]

VARIABLES
    storage_,   \* storage_[s]: the table of store s, from the keys it holds to Entries
    mutex_,     \* mutex_[s]: the thread that holds the store's mutex
    owners,     \* owners[s]: some shared_ptr outside the tree refers to s
    pc,         \* pc[t]: idle, lock, write, cast or done
    call,       \* call[t]: the operation thread t has invoked
    stack,      \* stack[t]: the frames of the call, the store called first
    ptr,        \* ptr[t]: the Entry whose value getAny returned a pointer to
    result,     \* result[t]: what the last call of t returned or threw
    lastSet,    \* the set() that returned latest
    declared,   \* declared[s][k]: the types setPortType accepted for the key
    ncalls      \* calls issued so far

vars == <<storage_, mutex_, owners, pc, call, stack, ptr, result, lastSet,
          declared, ncalls>>

\* after: the call was made when a call had just thrown a type conflict.
\* inserted: the call, a set(), has inserted an Entry in the table of a
\* store it has entered.
NoCall == [op |-> "none", store |-> NoStore, key |-> "a", arg |-> EmptyAny,
           after |-> FALSE, inserted |-> FALSE]
NoResult == [kind |-> "none", val |-> EmptyAny]

Ok == [kind |-> "ok", val |-> EmptyAny]
TypeConflictError == [kind |-> "type_conflict", val |-> EmptyAny]
NotFound == [kind |-> "not_found", val |-> EmptyAny]
CastError == [kind |-> "cast_mismatch", val |-> EmptyAny]
Found(v) == [kind |-> "found", val |-> v]
MissingKeyError == [kind |-> "missing_key", val |-> EmptyAny]
TypeResult(type) == [kind |-> "type", val |-> [t |-> type, v |-> 0]]

\* ------------------------------------------------------------ helpers

Top(t) == stack[t][Len(stack[t])]

\* As Alive, the delegating frame holding no shared_ptr: the parent is
\* called through a pointer that does not own it.
AliveByOwners(s) == owners[s]

\* A store is alive while a shared_ptr refers to it: one held outside, or
\* the local `parent` of a frame that delegated into it.
Alive(s) ==
    \/ owners[s]
    \/ \E t \in Threads : \E i \in 2..Len(stack[t]) : stack[t][i].store = s

\* As Delegates, without the test of the weak_ptr: the parent is called
\* whether or not it is alive.
DelegatesUnchecked(s, key) ==
    /\ parent_bb_[s] # NoStore
    /\ key \in DOMAIN internal_to_external_[s]

\* if( auto parent = parent_bb_.lock() ) { find(key) != end() }
Delegates(s, key) ==
    /\ parent_bb_[s] # NoStore
    /\ Alive(parent_bb_[s])
    /\ key \in DOMAIN internal_to_external_[s]

\* As ParentFrame, calling this store again: set(remapping_it->second, ..)
ParentFrameSelf(s, key) == [store |-> s, key |-> internal_to_external_[s][key]]

\* As ParentFrame, calling the parent with the local key: parent->set(key, ..)
ParentFrameLocalKey(s, key) == [store |-> parent_bb_[s], key |-> key]

\* The frame of the call made on the parent: parent->set(remapping_it->second, ..)
ParentFrame(s, key) ==
    [store |-> parent_bb_[s], key |-> internal_to_external_[s][key]]

\* As Has, an Entry without a value counting as missing: find(key) and a
\* test of the value.
HasValue(m, key) == key \in DOMAIN m /\ m[key].value # EmptyAny

\* storage_.find(key) != storage_.end()
Has(m, key) == key \in DOMAIN m

\* storage_.insert( {key, e} ) of a key the table does not hold
Insert(m, key, e) == m @@ (key :> e)

\* As TypeChanged, comparing with the type of the value held instead of the
\* locked type.
TypeChangedOfValue(m, key, type) ==
    /\ Has(m, key)
    /\ m[key].value # EmptyAny
    /\ m[key].value.t # type

\* As TypeChanged, without the comparison of the types: if( locked_type )
TypeLocked(m, key, type) ==
    /\ Has(m, key)
    /\ m[key].locked_port_type # NullType

\* An Entry is there and locked_type && locked_type != &typeid(T)
TypeChanged(m, key, type) ==
    /\ Has(m, key)
    /\ m[key].locked_port_type # NullType
    /\ m[key].locked_port_type # type

\* set(), the table after find and the insert of the else branch.
SetFindOrInsert(m, key) ==
    IF Has(m, key) THEN m ELSE Insert(m, key, Entry(NullType))

\* As AssignValue, rebuilding the Entry: it->second = Entry(SafeAny::Any(value))
AssignValueNewEntry(e, v) == [value |-> v, locked_port_type |-> NullType]

\* As AssignValue, locking the type on the write: the first write locks it
AssignValueLocks(e, v) == [value |-> v, locked_port_type |-> v.t]

\* As AssignValue, storing only into an Entry that holds no value yet.
AssignValueOnce(e, v) == IF e.value = EmptyAny THEN [e EXCEPT !.value = v] ELSE e

\* it->second.value = SafeAny::Any(value)
AssignValue(e, v) == [e EXCEPT !.value = v]

\* setPortType(), the table after a call that does not throw.
SetPortTypeTable(m, key, type) ==
    IF Has(m, key) THEN m ELSE Insert(m, key, Entry(type))

\* portType()
PortTypeOf(m, key) ==
    IF Has(m, key) THEN m[key].locked_port_type ELSE NullType

\* The mutexes after thread t has left every frame (return or unwinding:
\* each frame's unique_lock is released by its destructor).
ReleaseAll(t) == [s \in Stores |-> IF mutex_[s] = t THEN NoThread ELSE mutex_[s]]

\* As Unwind, the throw leaving every mutex of the call locked.
UnwindLeak(t) == [mutex_ EXCEPT ![Top(t).store] = t]

\* The mutexes after thread t has thrown out of its top frame: the stack is
\* unwound and every frame's unique_lock is released.
Unwind(t) == ReleaseAll(t)

\* As Acquire, without waiting for the mutex: the lock is missing.
AcquireNoLock(t) == pc[t] = "lock"

\* std::unique_lock<std::mutex> lock(mutex_) of the top frame.
Acquire(t) ==
    /\ pc[t] = "lock"
    /\ mutex_[Top(t).store] = NoThread

Complete(t, r) ==
    /\ pc' = [pc EXCEPT ![t] = "done"]
    /\ stack' = [stack EXCEPT ![t] = << >>]
    /\ result' = [result EXCEPT ![t] = r]
    /\ lastSet' = IF call[t].op = "set" /\ r.kind = "ok"
                  THEN [call[t] EXCEPT !.after = FALSE, !.inserted = FALSE]
                  ELSE lastSet

\* ------------------------------------------------------------ initial state

Init ==
    /\ storage_ = [s \in Stores |-> << >>]
    /\ mutex_ = [s \in Stores |-> NoThread]
    /\ owners = [s \in Stores |-> TRUE]
    /\ pc = [t \in Threads |-> "idle"]
    /\ call = [t \in Threads |-> NoCall]
    /\ stack = [t \in Threads |-> << >>]
    /\ ptr = [t \in Threads |-> << >>]
    /\ result = [t \in Threads |-> NoResult]
    /\ lastSet = NoCall
    /\ declared = [s \in Stores |-> [k \in Keys |-> {}]]
    /\ ncalls = 0

\* ------------------------------------------------------------ actions

\* A thread that holds a reference to store s invokes an operation on it.
Invoke(t, max, op, s, key, arg) ==
    /\ pc[t] \in {"idle", "done"}
    /\ ncalls < max
    /\ owners[s]
    /\ call' = [call EXCEPT ![t] =
                  [op |-> op, store |-> s, key |-> key, arg |-> arg,
                   after |-> \E u \in Threads : result[u] = TypeConflictError,
                   inserted |-> FALSE]]
    /\ stack' = [stack EXCEPT ![t] = <<[store |-> s, key |-> key]>>]
    /\ pc' = [pc EXCEPT ![t] = "lock"]
    /\ result' = [result EXCEPT ![t] = NoResult]
    /\ ncalls' = ncalls + 1
    /\ UNCHANGED <<storage_, mutex_, owners, ptr, lastSet, declared>>

TypeArg(type) == [t |-> type, v |-> 0]

Call(t, slots, max) ==
    \E slot \in slots :
        \/ \E v \in Values : Invoke(t, max, "set", slot[1], slot[2], v)
        \/ \E type \in Types : Invoke(t, max, "get", slot[1], slot[2], TypeArg(type))
        \/ \E type \in Types : Invoke(t, max, "setPortType", slot[1], slot[2], TypeArg(type))
        \/ Invoke(t, max, "portType", slot[1], slot[2], EmptyAny)

\* set(): lock, find, type check, insert; then the parent or the local Entry.
SetThrows(t) ==
    /\ Acquire(t)
    /\ call[t].op = "set"
    /\ TypeChanged(storage_[Top(t).store], Top(t).key, call[t].arg.t)
    /\ mutex_' = Unwind(t)
    /\ Complete(t, TypeConflictError)
    /\ UNCHANGED <<storage_, owners, call, ptr, declared, ncalls>>

SetDelegates(t) ==
    /\ Acquire(t)
    /\ call[t].op = "set"
    /\ LET s == Top(t).store
           key == Top(t).key
       IN /\ ~TypeChanged(storage_[s], key, call[t].arg.t)
          /\ Delegates(s, key)
          /\ storage_' = [storage_ EXCEPT ![s] = SetFindOrInsert(@, key)]
          /\ call' = [call EXCEPT ![t].inserted = @ \/ storage_'[s] # storage_[s]]
          /\ mutex_' = [mutex_ EXCEPT ![s] = t]
          /\ stack' = [stack EXCEPT ![t] = Append(@, ParentFrame(s, key))]
    /\ UNCHANGED <<owners, pc, ptr, result, lastSet, declared, ncalls>>

SetLocal(t) ==
    /\ Acquire(t)
    /\ call[t].op = "set"
    /\ LET s == Top(t).store
           key == Top(t).key
       IN /\ ~TypeChanged(storage_[s], key, call[t].arg.t)
          /\ ~Delegates(s, key)
          /\ storage_' = [storage_ EXCEPT ![s] = SetFindOrInsert(@, key)]
          /\ call' = [call EXCEPT ![t].inserted = @ \/ storage_'[s] # storage_[s]]
          /\ mutex_' = [mutex_ EXCEPT ![s] = t]
          /\ pc' = [pc EXCEPT ![t] = "write"]
    /\ UNCHANGED <<owners, stack, ptr, result, lastSet, declared, ncalls>>

\* it->second.value = SafeAny::Any(value); every frame returns.
SetWrite(t) ==
    /\ pc[t] = "write"
    /\ LET s == Top(t).store
           key == Top(t).key
       IN storage_' = [storage_ EXCEPT ![s][key] = AssignValue(@, call[t].arg)]
    /\ mutex_' = ReleaseAll(t)
    /\ Complete(t, Ok)
    /\ UNCHANGED <<owners, call, ptr, declared, ncalls>>

\* getAny(): lock, then the parent's getAny or the local find.
GetDelegates(t) ==
    /\ Acquire(t)
    /\ call[t].op = "get"
    /\ LET s == Top(t).store
           key == Top(t).key
       IN /\ Delegates(s, key)
          /\ mutex_' = [mutex_ EXCEPT ![s] = t]
          /\ stack' = [stack EXCEPT ![t] = Append(@, ParentFrame(s, key))]
    /\ UNCHANGED <<storage_, owners, pc, call, ptr, result, lastSet, declared, ncalls>>

\* As GetMissing, looking the key up with storage_[key], which inserts a
\* default Entry for a key the table does not hold.
GetMissingInserts(t) ==
    /\ Acquire(t)
    /\ call[t].op = "get"
    /\ ~Delegates(Top(t).store, Top(t).key)
    /\ ~Has(storage_[Top(t).store], Top(t).key)
    /\ storage_' = [storage_ EXCEPT ![Top(t).store] =
                       Insert(@, Top(t).key, Entry(NullType))]
    /\ mutex_' = ReleaseAll(t)
    /\ Complete(t, NotFound)
    /\ UNCHANGED <<owners, call, ptr, declared, ncalls>>

\* it == storage_.end(): getAny returns nullptr and get() returns false.
GetMissing(t) ==
    /\ Acquire(t)
    /\ call[t].op = "get"
    /\ ~Delegates(Top(t).store, Top(t).key)
    /\ ~Has(storage_[Top(t).store], Top(t).key)
    /\ mutex_' = ReleaseAll(t)
    /\ Complete(t, NotFound)
    /\ UNCHANGED <<storage_, owners, call, ptr, declared, ncalls>>

\* getAny returns &(it->second.value): every frame returns and unlocks, and
\* get() is left with a pointer into the table of the store that answered.
GetFound(t) ==
    /\ Acquire(t)
    /\ call[t].op = "get"
    /\ ~Delegates(Top(t).store, Top(t).key)
    /\ Has(storage_[Top(t).store], Top(t).key)
    /\ ptr' = [ptr EXCEPT ![t] = <<Top(t).store, Top(t).key>>]
    /\ mutex_' = ReleaseAll(t)
    /\ stack' = [stack EXCEPT ![t] = << >>]
    /\ pc' = [pc EXCEPT ![t] = "cast"]
    /\ UNCHANGED <<storage_, owners, call, result, lastSet, declared, ncalls>>

\* Another thread is about to assign the value the pointer refers to.
Racing(t) ==
    \E u \in Threads \ {t} :
        /\ pc[u] = "write"
        /\ <<Top(u).store, Top(u).key>> = ptr[t]

\* The values a read through the pointer may yield: the Entry's value, or
\* anything when the store is gone or the value is being assigned.
Readable(t) ==
    IF Alive(ptr[t][1]) /\ ~Racing(t)
    THEN {storage_[ptr[t][1]][ptr[t][2]].value}
    ELSE Values \cup {EmptyAny}

\* Any::cast<T>(): the value when it holds a T, an error otherwise.
Cast(v, type) == IF v.t = type THEN Found(v) ELSE CastError

\* T get(key): what the throwing variant makes of the outcome r of
\* get(key, value): if (!found) throw RuntimeError("Missing key").
GetOrFail(r) == IF r = NotFound THEN MissingKeyError ELSE r

\* value = val->cast<T>(); return (bool)val;
GetCast(t) ==
    /\ pc[t] = "cast"
    /\ \E v \in Readable(t) : Complete(t, Cast(v, call[t].arg.t))
    /\ ptr' = [ptr EXCEPT ![t] = << >>]
    /\ UNCHANGED <<storage_, mutex_, owners, call, declared, ncalls>>

\* setPortType(): the whole body runs under the store's own mutex.
SetPortTypeThrows(t) ==
    /\ Acquire(t)
    /\ call[t].op = "setPortType"
    /\ TypeChanged(storage_[Top(t).store], Top(t).key, call[t].arg.t)
    /\ mutex_' = Unwind(t)
    /\ Complete(t, TypeConflictError)
    /\ UNCHANGED <<storage_, owners, call, ptr, declared, ncalls>>

SetPortType(t) ==
    /\ Acquire(t)
    /\ call[t].op = "setPortType"
    /\ LET s == Top(t).store
           key == Top(t).key
       IN /\ ~TypeChanged(storage_[s], key, call[t].arg.t)
          /\ storage_' = [storage_ EXCEPT ![s] = SetPortTypeTable(@, key, call[t].arg.t)]
          /\ declared' = [declared EXCEPT ![s][key] = @ \cup {call[t].arg.t}]
    /\ Complete(t, Ok)
    /\ UNCHANGED <<mutex_, owners, call, ptr, ncalls>>

\* As PortType, following the remap: the locked type is asked of the parent
\* under the remapped key.
PortTypeOfParent(t) ==
    /\ Acquire(t)
    /\ call[t].op = "portType"
    /\ LET s == Top(t).store
           key == Top(t).key
       IN Complete(t, TypeResult(
              IF Delegates(s, key)
              THEN PortTypeOf(storage_[parent_bb_[s]], internal_to_external_[s][key])
              ELSE PortTypeOf(storage_[s], key)))
    /\ UNCHANGED <<storage_, mutex_, owners, call, ptr, declared, ncalls>>

\* portType(): the whole body runs under the store's own mutex.
PortType(t) ==
    /\ Acquire(t)
    /\ call[t].op = "portType"
    /\ Complete(t, TypeResult(PortTypeOf(storage_[Top(t).store], Top(t).key)))
    /\ UNCHANGED <<storage_, mutex_, owners, call, ptr, declared, ncalls>>

\* The last shared_ptr held outside the tree is dropped.  A caller keeps its
\* own reference for the length of its call.
InCall(t, s) == pc[t] \in {"lock", "write", "cast"} /\ call[t].store = s

DropRef(s) ==
    /\ owners[s]
    /\ \E c \in Stores : parent_bb_[c] = s
    /\ \A t \in Threads : ~InCall(t, s)
    /\ owners' = [owners EXCEPT ![s] = FALSE]
    /\ UNCHANGED <<storage_, mutex_, pc, call, stack, ptr, result, lastSet,
                   declared, ncalls>>

\* Every step of a call after its invocation.
Run(t) ==
    \/ SetThrows(t)
    \/ SetDelegates(t)
    \/ SetLocal(t)
    \/ SetWrite(t)
    \/ GetDelegates(t)
    \/ GetMissing(t)
    \/ GetFound(t)
    \/ GetCast(t)
    \/ SetPortTypeThrows(t)
    \/ SetPortType(t)
    \/ PortType(t)

\* The (store, key) pairs callers use.
Slots == Stores \X Keys
\* The remapped chain: a of G is a of C, which is b of R.
ChainSlots == {<<"G", "a">>, <<"C", "a">>, <<"R", "b">>}

\* One caller: the calls follow one another.
Next ==
    \/ Call("t1", Slots, MaxCalls)
    \/ Run("t1")
    \/ \E s \in Stores : DropRef(s)

Spec == Init /\ [][Next]_vars

\* Concurrent callers working on the remapped chain.
ConcNext ==
    \/ \E t \in Threads : Call(t, ChainSlots, MaxConcCalls)
    \/ \E t \in Threads : Run(t)
    \/ \E s \in Stores : DropRef(s)

ConcSpec == Init /\ [][ConcNext]_vars

\* Concurrent callers under a fair scheduler: a thread inside a call that can
\* take a step eventually takes one.
FairNext ==
    \/ \E t \in Threads : Call(t, ChainSlots, MaxFairCalls)
    \/ \E t \in Threads : Run(t)
    \/ \E s \in Stores : DropRef(s)

Fairness == \A t \in Threads : WF_vars(Run(t))

FairSpec == Init /\ [][FairNext]_vars /\ Fairness

\* Concurrent writers: every thread sets a key of its own, all on one store;
\* when every set has returned, the threads read the keys back.
WriterKey(t) == IF t = "t1" THEN "a" ELSE "b"
WriterValue(t) == IF t = "t1" THEN [t |-> "int", v |-> 1] ELSE [t |-> "str", v |-> 2]
WriterCalls == 2 * Cardinality(Threads)

WriterSet(t) ==
    /\ call[t] = NoCall
    /\ \E s \in Stores :
          /\ \A u \in Threads : call[u].store \in {NoStore, s}
          /\ Invoke(t, WriterCalls, "set", s, WriterKey(t), WriterValue(t))

ReaderGet(t) ==
    /\ \A u \in Threads : call[u].op = "get" \/ (call[u].op = "set" /\ pc[u] = "done")
    /\ \E u \in Threads :
          Invoke(t, WriterCalls, "get", call[t].store, WriterKey(u),
                 TypeArg(WriterValue(u).t))

WritersNext ==
    \E t \in Threads :
        \/ WriterSet(t)
        \/ ReaderGet(t)
        \/ SetDelegates(t)
        \/ SetLocal(t)
        \/ SetWrite(t)
        \/ GetDelegates(t)
        \/ GetFound(t)
        \/ GetCast(t)

WritersSpec == Init /\ [][WritersNext]_vars

\* ------------------------------------------------------------ properties

\* Thread t returns or throws in this step.
Completes(t) == pc[t] # "done" /\ pc'[t] = "done"

On(c, s, key) == c.store = s /\ c.key = key

\* The stores above s.
RECURSIVE Ancestors(_)
Ancestors(s) ==
    IF parent_bb_[s] = NoStore THEN {}
    ELSE {parent_bb_[s]} \cup Ancestors(parent_bb_[s])

\* <<c, a, p, b>>: store c maps its key a to key b of its parent p.
RemapPairs ==
    UNION {{<<c, a, parent_bb_[c], internal_to_external_[c][a]>> :
               a \in DOMAIN internal_to_external_[c]} :
           c \in {s \in Stores : parent_bb_[s] # NoStore}}

\* C1: while the stores above a child c are alive and c maps a to b of its
\* parent p, a get<T> that follows a successful set of a T value v returns
\* (v, true) when the set was on (c, a) and the get is on (p, b) or on
\* (c, a), and when the set was on (p, b) and the get is on (c, a).
C1_RemapTransparency ==
    [][\A t \in Threads : \A q \in RemapPairs :
          ( /\ Completes(t)
            /\ call[t].op = "get"
            /\ lastSet.op = "set"
            /\ call[t].arg.t = lastSet.arg.t
            /\ \A anc \in Ancestors(q[1]) : owners[anc]
            /\ \/ On(lastSet, q[1], q[2]) /\ On(call[t], q[3], q[4])
               \/ On(lastSet, q[1], q[2]) /\ On(call[t], q[1], q[2])
               \/ On(lastSet, q[3], q[4]) /\ On(call[t], q[1], q[2]) )
          => result'[t] = Found(lastSet.arg)]_vars

\* C.set(a, v) returned, and R.get(b) then returned (v, true).
C1_Witness ==
    /\ pc["t1"] = "done"
    /\ call["t1"].op = "get"
    /\ On(call["t1"], "R", "b")
    /\ On(lastSet, "C", "a")
    /\ owners["R"]
    /\ result["t1"] = Found(lastSet.arg)

\* C2: while the parent of c is alive, a key that c remaps and that was
\* never passed to setPortType has no Entry in c's own table, whatever get
\* and set calls were made on it.
C2_NoLocalEntryForRemappedKey ==
    \A q \in RemapPairs :
        owners[q[3]] /\ declared[q[1]][q[2]] = {} => ~Has(storage_[q[1]], q[2])

\* C3: once setPortType(key, T) has returned, a set of a value of another
\* type on that key throws, and portType(key) reports T.
C3_DeclaredTypeEnforced ==
    \A t \in Threads :
        pc[t] = "done" =>
            LET d == declared[call[t].store][call[t].key]
            IN /\ call[t].op = "set" /\ result[t] = Ok => d \subseteq {call[t].arg.t}
               /\ call[t].op = "portType" /\ d # {} => result[t].val.t \in d

\* C4: after setPortType(key, T) has returned, also on a key whose Entry was
\* there with no locked type, the Entry's locked type is T.
C4_DeclareLocksExistingEntry ==
    \A t \in Threads :
        pc[t] = "done" /\ call[t].op = "setPortType" /\ result[t] = Ok
            => PortTypeOf(storage_[call[t].store], call[t].key) = call[t].arg.t

\* C5: a locked type, once set, is never changed or cleared by any step.
C5_TypeLockPermanent ==
    [][\A s \in Stores, k \in Keys :
          PortTypeOf(storage_[s], k) # NullType
              => PortTypeOf(storage_'[s], k) = PortTypeOf(storage_[s], k)]_vars

\* A set on C's remapped key failed in R, whose lock on b is still there.
C5_Witness ==
    /\ pc["t1"] = "done"
    /\ call["t1"].op = "set"
    /\ On(call["t1"], "C", "a")
    /\ result["t1"] = TypeConflictError
    /\ PortTypeOf(storage_["R"], "b") # NullType
    /\ PortTypeOf(storage_["R"], "b") # call["t1"].arg.t

\* The Entries a set on (s, key) may reach, its own and those of the remaps.
RECURSIVE StaticPath(_, _)
StaticPath(s, key) ==
    {<<s, key>>} \cup
        IF parent_bb_[s] # NoStore /\ key \in DOMAIN internal_to_external_[s]
        THEN StaticPath(parent_bb_[s], internal_to_external_[s][key])
        ELSE {}

\* A step of the set() that thread t is in.
SetStep(t) ==
    /\ call[t].op = "set"
    /\ pc[t] \in {"lock", "write"}
    /\ <<pc[t], stack[t]>> # <<pc'[t], stack'[t]>>

\* C6: no step of a set changes the locked type of any key of any store; a
\* key never accepted by setPortType has no locked type; and a set throws
\* only when setPortType accepted a key on its way.
C6_SetNeverLocks ==
    /\ [][\A t \in Threads : SetStep(t) =>
            \A s \in Stores, k \in Keys :
                PortTypeOf(storage_'[s], k) = PortTypeOf(storage_[s], k)]_vars
    /\ [](\A s \in Stores, k \in Keys :
            declared[s][k] = {} => PortTypeOf(storage_[s], k) = NullType)
    /\ [](\A t \in Threads :
            pc[t] = "done" /\ call[t].op = "set" /\ result[t] = TypeConflictError
                => \E q \in StaticPath(call[t].store, call[t].key) :
                       declared[q[1]][q[2]] # {})

\* A set has passed the type check on an Entry that holds a value of
\* another type, and is about to overwrite it.
C6_Witness ==
    /\ pc["t1"] = "write"
    /\ call["t1"].op = "set"
    /\ LET e == storage_[Top("t1").store][Top("t1").key]
       IN /\ e.value # EmptyAny
          /\ e.value.t # call["t1"].arg.t
          /\ e.locked_port_type = NullType

\* C10: with the parent gone, a get on a remapped key finds an Entry only if
\* a set stored a value in the store's own table or setPortType declared it
\* there.
C10_NoLeftoverAfterParentGone ==
    \A t \in Threads :
        ( /\ pc[t] = "cast"
          /\ ptr[t] = <<call[t].store, call[t].key>>
          /\ call[t].key \in DOMAIN internal_to_external_[call[t].store]
          /\ parent_bb_[call[t].store] # NoStore
          /\ ~Alive(parent_bb_[call[t].store]) )
        => \/ storage_[call[t].store][call[t].key].value # EmptyAny
           \/ declared[call[t].store][call[t].key] # {}

\* The stores whose mutex thread t holds.
HeldBy(t) == {s \in Stores : mutex_[s] = t}

\* The frames of t whose unique_lock has been taken.
Entered(t) ==
    IF pc[t] = "lock" THEN 1..(Len(stack[t]) - 1) ELSE 1..Len(stack[t])

\* Thread t holds the mutexes of the frames it has entered and no other, and
\* every frame is on the parent of the frame below it.
LockOrder(t) ==
    /\ HeldBy(t) = {stack[t][i].store : i \in Entered(t)}
    /\ \A i \in 1..(Len(stack[t]) - 1) :
           stack[t][i + 1].store = parent_bb_[stack[t][i].store]

\* Every thread of S waits for a mutex that a thread of S holds.
Deadlocked(S) ==
    \A t \in S : pc[t] = "lock" /\ mutex_[Top(t).store] \in S

\* C7: no set of threads wait for each other's mutexes, and every thread
\* holds exactly the mutexes of the store it was called on and of the
\* ancestors it has delegated to, taken in that order.
C7_DeadlockFree ==
    /\ \A S \in SUBSET Threads : S # {} => ~Deadlocked(S)
    /\ \A t \in Threads : LockOrder(t)

\* t1 holds the mutexes of G and C and waits for R's, which t2 holds.
C7_Witness ==
    /\ pc["t1"] = "lock"
    /\ Len(stack["t1"]) = 3
    /\ HeldBy("t1") = {"G", "C"}
    /\ mutex_["R"] = "t2"

\* C8: a thread that is in no call holds no mutex, and every call that is
\* invoked returns or throws.
C8_NoOperationBlocks ==
    /\ [](\A t \in Threads : pc[t] \in {"idle", "done"} => HeldBy(t) = {})
    /\ \A t \in Threads : (pc[t] \in {"lock", "write", "cast"}) ~> (pc[t] = "done")

\* t1's set on G threw a type conflict with the mutexes of G and C held, and
\* a set that t2 made afterwards on the same chain has returned.
C8_Witness ==
    /\ pc["t1"] = "done"
    /\ call["t1"].op = "set"
    /\ On(call["t1"], "G", "a")
    /\ result["t1"] = TypeConflictError
    /\ PortTypeOf(storage_["G"], "a") = NullType
    /\ PortTypeOf(storage_["C"], "a") = NullType
    /\ pc["t2"] = "done"
    /\ call["t2"].after
    /\ call["t2"].op = "set"
    /\ result["t2"] = Ok

\* The stores thread t is inside, their mutexes taken.
Inside(t) == {stack[t][i].store : i \in Entered(t)}

\* C9: with every thread setting its own key on one store, no two threads
\* are inside a store at once, no set throws, a call that has not returned
\* can go on, and once the sets have returned every get of key_i returns
\* (i, true).
C9_ConcurrentWriters ==
    /\ \A t, u \in Threads : t # u => Inside(t) \cap Inside(u) = {}
    /\ \A t \in Threads : ~ENABLED SetThrows(t) /\ ~ENABLED GetMissing(t)
    /\ (\E t \in Threads : pc[t] \in {"lock", "write", "cast"}) => ENABLED WritersNext
    /\ \A t \in Threads :
           pc[t] = "done" /\ call[t].op = "get" =>
               \E u \in Threads :
                   /\ call[t].key = WriterKey(u)
                   /\ result[t] = Found(WriterValue(u))

\* On C, where a is remapped and b is local, each thread has read back the
\* key the other one set.
C9_Witness ==
    /\ \A t \in Threads : pc[t] = "done" /\ call[t].op = "get" /\ call[t].store = "C"
    /\ result["t1"] = Found(WriterValue("t2"))
    /\ result["t2"] = Found(WriterValue("t1"))

\* The store and key a getAny or set on (s, key) ends at: the remaps are
\* followed while the parent is alive.
RECURSIVE Resolve(_, _)
Resolve(s, key) ==
    IF /\ parent_bb_[s] # NoStore
       /\ Alive(parent_bb_[s])
       /\ key \in DOMAIN internal_to_external_[s]
    THEN Resolve(parent_bb_[s], internal_to_external_[s][key])
    ELSE <<s, key>>

\* The getAny of thread t's get returns in this step.
GetAnyReturns(t) == call[t].op = "get" /\ pc[t] = "lock" /\ pc'[t] # "lock"

\* C11: get reports not-found, and the throwing get raises missing-key,
\* exactly when the store and key the call resolves to has no Entry; a key
\* with an Entry, written or only declared, is never reported not-found; and
\* portType of a key with no Entry returns no type.
C11_NotFoundIffNoEntry ==
    [][\A t \in Threads :
          /\ GetAnyReturns(t) =>
                LET q == Resolve(call[t].store, call[t].key)
                    missing == q[2] \notin DOMAIN storage_[q[1]]
                IN /\ missing <=> (pc'[t] = "done" /\ result'[t] = NotFound)
                   /\ missing <=> GetOrFail(result'[t]) = MissingKeyError
                   /\ ~missing => pc'[t] = "cast"
          /\ pc[t] = "cast" /\ Completes(t) =>
                /\ result'[t] # NotFound
                /\ GetOrFail(result'[t]) = result'[t]
          /\ call[t].op = "portType" /\ Completes(t)
                /\ call[t].key \notin DOMAIN storage_[call[t].store]
                => result'[t] = TypeResult(NullType)]_vars

\* C's a was declared and has an Entry in C; a get on it went to R's b, which
\* has none, and reported not-found.
C11_Witness ==
    /\ pc["t1"] = "done"
    /\ call["t1"].op = "get"
    /\ On(call["t1"], "C", "a")
    /\ result["t1"] = NotFound
    /\ GetOrFail(result["t1"]) = MissingKeyError
    /\ "a" \in DOMAIN storage_["C"]
    /\ "b" \notin DOMAIN storage_["R"]
    /\ owners["R"]

\* The keys a store does not remap.
Unmapped(s) == Keys \ DOMAIN internal_to_external_[s]

\* C12: on a key the store does not remap, a get<T> that follows a successful
\* set of a T value v on that key, no other set having succeeded on any key
\* in between, returns (v, true).
C12_RoundTrip ==
    [][\A t \in Threads : \A s \in Stores : \A k \in Unmapped(s) :
          ( /\ Completes(t)
            /\ call[t].op = "get"
            /\ On(call[t], s, k)
            /\ On(lastSet, s, k)
            /\ lastSet.op = "set"
            /\ call[t].arg.t = lastSet.arg.t )
          => result'[t] = Found(lastSet.arg)]_vars

\* G's own key b was declared, then set, then read back.
C12_Witness ==
    /\ pc["t1"] = "done"
    /\ call["t1"].op = "get"
    /\ On(call["t1"], "G", "b")
    /\ On(lastSet, "G", "b")
    /\ lastSet.op = "set"
    /\ PortTypeOf(storage_["G"], "b") = lastSet.arg.t
    /\ result["t1"] = Found(lastSet.arg)

\* C13: a setPortType(key, T) made after a setPortType(key, T) on the same
\* store has returned also returns, and leaves every table as it was: the
\* Entries, their locked types and their values.
C13_DeclareIdempotent ==
    [][\A t \in Threads :
          ( /\ Completes(t)
            /\ call[t].op = "setPortType"
            /\ call[t].arg.t \in declared[call[t].store][call[t].key] )
          => /\ result'[t] = Ok
             /\ storage_' = storage_]_vars

\* Both threads have declared the same type for the same key of one store,
\* and both calls have returned.
C13_Witness ==
    /\ \A t \in Threads : pc[t] = "done" /\ result[t] = Ok
    /\ call["t1"].op = "setPortType"
    /\ call["t2"] = call["t1"]
    /\ PortTypeOf(storage_[call["t1"].store], call["t1"].key) = call["t1"].arg.t

\* C14: a set that has thrown a type conflict has inserted no Entry, in the
\* store it was called on or in any store above it: the tables hold the
\* keys they held before the call.
C14_FailedSetNoEffect ==
    \A t \in Threads :
        pc[t] = "done" /\ call[t].op = "set" /\ result[t] = TypeConflictError
            => ~call[t].inserted

\* C15: while a thread reads an Entry's value through the pointer getAny
\* returned, no other thread is inside a set that assigns that value: the
\* read and the write are kept apart by the store's mutex.
C15_ValueReadUnderLock ==
    \A t \in Threads : pc[t] = "cast" => ~Racing(t)

\* The locked type of the Entry accepts a value of the type.
Accepts(m, key, type) == PortTypeOf(m, key) \in {NullType, type}

\* C16: for a set of a U value on a key a that store c remaps to b of its
\* parent p: a set that went to p and returned found no locked type other
\* than U on c's a or on p's b; when c's own a is locked to another type
\* the set throws in c, before p is called, p's mutex never taken and no
\* table changed; and no step of the set changes the locked type of c's a.
C16_RemappedSetChecksBoth ==
    [][\A t \in Threads : \A q \in RemapPairs :
          SetStep(t) /\ On(call[t], q[1], q[2]) =>
            /\ PortTypeOf(storage_'[q[1]], q[2]) = PortTypeOf(storage_[q[1]], q[2])
            /\ (Completes(t) /\ result'[t] = Ok /\ Len(stack[t]) >= 2) =>
                  /\ Accepts(storage_[q[1]], q[2], call[t].arg.t)
                  /\ Accepts(storage_[q[3]], q[4], call[t].arg.t)
            /\ ~Accepts(storage_[q[1]], q[2], call[t].arg.t) =>
                  /\ Completes(t)
                  /\ result'[t] = TypeConflictError
                  /\ Len(stack[t]) = 1
                  /\ storage_' = storage_
                  /\ mutex_[q[3]] # t
                  /\ mutex_'[q[3]] = mutex_[q[3]]]_vars

\* C's a is locked in C's own table; a set of a value of another type on it
\* threw with R alive, and R's table has no Entry for b.
C16_Witness ==
    /\ pc["t1"] = "done"
    /\ call["t1"].op = "set"
    /\ On(call["t1"], "C", "a")
    /\ result["t1"] = TypeConflictError
    /\ ~Accepts(storage_["C"], "a", call["t1"].arg.t)
    /\ owners["R"]
    /\ ~Has(storage_["R"], "b")

\* The value stored under a key: that of its Entry, none without an Entry.
ValueOf(m, key) == IF Has(m, key) THEN m[key].value ELSE EmptyAny

\* C17: a set or get on (s, k) ends at one store and key, the one the remaps
\* lead to through the parents alive during the call, s itself or a store
\* above it; a call goes from a store to its parent only, and only while
\* the parent is alive: the get reads the value of that Entry; the set, when it
\* returns, has stored its value there, and no step of it changes the value
\* of any other key of any store.
C17_SingleTargetResolution ==
    [][\A t \in Threads :
          call[t].op \in {"set", "get"} =>
          LET q == Resolve(call[t].store, call[t].key)
              others == (Stores \X Keys) \ {q}
          IN /\ q[1] \in {call[t].store} \cup Ancestors(call[t].store)
             /\ (stack[t] # << >> /\ Len(stack'[t]) > Len(stack[t])) =>
                   /\ Alive(parent_bb_[Top(t).store])
                   /\ stack'[t][Len(stack'[t])].store = parent_bb_[Top(t).store]
             /\ (pc[t] = "write" /\ Completes(t)) =>
                   /\ result'[t] = Ok
                   /\ ValueOf(storage_'[q[1]], q[2]) = call[t].arg
                   /\ \A o \in others :
                          ValueOf(storage_'[o[1]], o[2]) = ValueOf(storage_[o[1]], o[2])
             /\ (SetStep(t) /\ pc[t] = "lock") =>
                   \A o \in Stores \X Keys :
                       ValueOf(storage_'[o[1]], o[2]) = ValueOf(storage_[o[1]], o[2])
             /\ (GetAnyReturns(t) /\ pc'[t] = "cast") => ptr'[t] = q]_vars

\* Two sets on C's a have returned: the first, with R alive, stored its value
\* under R's b; the second, R gone, under C's own a.
C17_Witness ==
    /\ pc["t1"] = "done"
    /\ On(lastSet, "C", "a")
    /\ call["t1"] = [lastSet EXCEPT !.inserted = call["t1"].inserted,
                                    !.after = call["t1"].after]
    /\ ~Alive("R")
    /\ ValueOf(storage_["R"], "b") # EmptyAny
    /\ ValueOf(storage_["C"], "a") = lastSet.arg
    /\ ValueOf(storage_["R"], "b") # lastSet.arg

\* Thread t takes a step of its call.
Steps(t) == <<pc[t], stack[t]>> # <<pc'[t], stack'[t]>>

\* C18: no step of a get or of a portType changes the table of any store:
\* no Entry is added, no value and no locked type changes, whether the key
\* is found, missing or remapped.
C18_ReadsChangeNothing ==
    [][\A t \in Threads :
          Steps(t) /\ call[t].op \in {"get", "portType"} /\ pc[t] # "done"
              => storage_' = storage_]_vars

\* A get on G's a went through C to R, found nothing there, and every table
\* is still empty.
C18_Witness ==
    /\ pc["t1"] = "done"
    /\ call["t1"].op = "get"
    /\ On(call["t1"], "G", "a")
    /\ \A s \in Stores : owners[s]
    /\ result["t1"] = NotFound
    /\ \A s \in Stores : storage_[s] = << >>

\* C19: setPortType and portType work on the store they are called on only:
\* the call enters no other store and takes no other mutex, no other
\* store's table and no other key's Entry changes, and portType returns the
\* locked type of the store's own Entry, whatever the remap of the key and
\* the Entries of the parent are.
C19_DeclareAndQueryAreLocal ==
    [][\A t \in Threads :
          (Steps(t) /\ call[t].op \in {"setPortType", "portType"} /\ pc[t] # "done") =>
            LET s == call[t].store
                k == call[t].key
            IN /\ stack[t] = <<[store |-> s, key |-> k]>>
               /\ Completes(t)
               /\ HeldBy(t) = {}
               /\ \A o \in Stores \ {s} :
                      storage_'[o] = storage_[o] /\ mutex_'[o] = mutex_[o]
               /\ \A j \in Keys \ {k} :
                      /\ Has(storage_'[s], j) = Has(storage_[s], j)
                      /\ Has(storage_[s], j) => storage_'[s][j] = storage_[s][j]
               /\ call[t].op = "portType" =>
                      result'[t] = TypeResult(
                          IF k \in DOMAIN storage_[s]
                          THEN storage_[s][k].locked_port_type
                          ELSE NullType)]_vars

\* R's b is locked and R is alive; portType of C's a, which is remapped to
\* R's b, returned no type.
C19_Witness ==
    /\ pc["t1"] = "done"
    /\ call["t1"].op = "portType"
    /\ On(call["t1"], "C", "a")
    /\ owners["R"]
    /\ PortTypeOf(storage_["R"], "b") # NullType
    /\ result["t1"] = TypeResult(NullType)

\* The threads whose call has been delegated into store s.
DelegatedInto(s) ==
    {t \in Threads : \E i \in 2..Len(stack[t]) : stack[t][i].store = s}

=============================================================================
